---- MODULE Spec2Model ----
(***************************************************************************)
(* Model of pahserver's client connection handler                          *)
(* (src/pahserver/src/bin/pahserver/client.rs).                            *)
(*                                                                         *)
(* Every connection runs handle_connect_client against the shared State:   *)
(* a mutex `m` guarding next_permuter_id and the permuters map.  One       *)
(* action is one step of the handler; steps of different connections       *)
(* interleave freely (multi-threaded runtime), except that the mutex is    *)
(* held by at most one of them.                                            *)
(*                                                                         *)
(* client_read and client_write are the bodies of the source: they return   *)
(* Ok(()) at their first poll.  try_join! of two such futures completes in *)
(* the poll that reaches it, so the handler's future is suspended - and    *)
(* can be dropped - only at the awaits of lines 34-37.  state.m is a       *)
(* blocking mutex; no step of this file panics while holding it, so        *)
(* poisoning is not modelled.                                              *)
(*                                                                         *)
(* f64 values are represented exactly: <<"fin", num, den>> is the quotient *)
(* num/den in lowest terms (den > 0), <<"inf">> and <<"nan">> are the IEEE *)
(* results of a division by zero.  Rounding is not modelled.               *)
(***************************************************************************)
EXTENDS Integers, Sequences, FiniteSets, TLC

\* ---- bounds ------------------------------------------------------------
NumConns == 2          \* concurrent connections
MaxPermuters == 2      \* largest data.permuters.len() of a submission
MaxPriority == 2       \* largest data.priority of a submission
MaxInbox == 1          \* messages a client streams after the acknowledgment

Conns == 1..NumConns
Priorities == (-1)..MaxPriority
NoOne == 0             \* the mutex is free

VARIABLES
    next_permuter_id,  \* MutableState.next_permuter_id
    permuters,         \* MutableState.permuters : id -> Permuter
    lock,              \* holder of state.m, or NoOne
    pc,                \* pc[c]: position of connection c in handle_connect_client
    len,               \* len[c]: data.permuters.len()
    priority,          \* priority[c]: data.priority
    i,                 \* i[c]: index of the loop in progress (reads, inserts, removes)
    energy_add,        \* energy_add[c]: the local of line 40
    perm_ids,          \* perm_ids[c]: the Vec of line 42
    id,                \* id[c]: the local of line 46
    r,                 \* r[c]: result of try_join!, "none" before it
    ret,               \* ret[c]: what the handler returned, "none" while running
    halves,            \* halves[c]: completion of client_read / client_write
    io,                \* io[c]: channel operations performed, in order
    inbox,             \* inbox[c]: messages the client has streamed, not yet read
    issued,            \* every <<id, connection>> ever taken from next_permuter_id, in order
    lock_next,         \* lock_next[c]: next_permuter_id when c took the lock to insert
    lock_dom,          \* lock_dom[c]: DOMAIN permuters when c took the lock to insert
    removes            \* removes[c]: completed bulk removes of c

vars == <<next_permuter_id, permuters, lock, pc, len, priority, i, energy_add,
          perm_ids, id, r, ret, halves, io, inbox, issued, lock_next, lock_dom,
          removes>>

\* ---- pure helpers ------------------------------------------------------
RECURSIVE Gcd(_, _)
Gcd(a, b) == IF b = 0 THEN a ELSE Gcd(b, a % b)

Abs(x) == IF x < 0 THEN -x ELSE x

\* mutant: the quotient is taken in integers
F64Div_Integer(n, p) ==
    IF p = 0
    THEN IF n = 0 THEN <<"nan">> ELSE <<"inf">>
    ELSE <<"fin", (IF p < 0 THEN -1 ELSE 1) * (n \div Abs(p)), 1>>

\* (n as f64) / p
F64Div(n, p) ==
    IF p = 0
    THEN IF n = 0 THEN <<"nan">> ELSE <<"inf">>
    ELSE LET g == Gcd(n, Abs(p))
             s == IF p < 0 THEN -1 ELSE 1
         IN  IF n = 0 THEN <<"fin", 0, 1>>
             ELSE <<"fin", s * (n \div g), Abs(p) \div g>>

\* mutant: the priority field is filled from the batch size
NewPermuter_PriorityFromLen(c, k) ==
    [ data         |-> <<c, k>>,
      work_queue   |-> <<>>,
      result_queue |-> <<>>,
      stale        |-> FALSE,
      priority     |-> len[c],
      energy_add   |-> energy_add[c] ]

\* Permuter { data, work_queue, result_queue, stale, priority, energy_add }
NewPermuter(c, k) ==
    [ data         |-> <<c, k>>,
      work_queue   |-> <<>>,
      result_queue |-> <<>>,
      stale        |-> FALSE,
      priority     |-> priority[c],
      energy_add   |-> energy_add[c] ]

\* HashMap::insert / HashMap::remove
MapInsert(m, key, p) == (key :> p) @@ m
MapRemove(m, key) == [k \in DOMAIN m \ {key} |-> m[k]]

\* the protocol halves: both bodies are `Ok(())`
client_read == "Ok"
client_write == "Ok"

Range(s) == {s[k] : k \in 1..Len(s)}

\* mutant: the acknowledgment is written after the registration block
Then_RegisterBeforeAck(done) ==
    CASE done = "reads"      -> "lock_insert"
      [] done = "insert"     -> "write_json"
      [] done = "write_json" -> "client_read"
      [] done = "try_join"   -> "lock_remove"
      [] done = "remove"     -> "return"

\* mutant: `try_join!(..)?` - the handler returns without the remove block
Then_ReturnOnJoin(done) ==
    CASE done = "reads"      -> "write_json"
      [] done = "write_json" -> "lock_insert"
      [] done = "insert"     -> "client_read"
      [] done = "try_join"   -> "return"
      [] done = "remove"     -> "return"

\* mutant: the remove block runs before the halves are joined
Then_RemoveBeforeJoin(done) ==
    CASE done = "reads"      -> "write_json"
      [] done = "write_json" -> "lock_insert"
      [] done = "insert"     -> "lock_remove"
      [] done = "remove"     -> "client_read"
      [] done = "try_join"   -> "return"

\* the order of the handler's blocks: what runs when block `done` has finished
Then(done) ==
    CASE done = "reads"      -> "write_json"     \* line 36 -> 37
      [] done = "write_json" -> "lock_insert"    \* line 37 -> 40..44
      [] done = "insert"     -> "client_read"    \* line 61 -> 63
      [] done = "try_join"   -> "lock_remove"    \* line 66 -> 68
      [] done = "remove"     -> "return"         \* line 73 -> 74

\* ---- initial state -----------------------------------------------------
Init ==
    /\ next_permuter_id = 0
    /\ permuters = <<>>
    /\ lock = NoOne
    /\ pc = [c \in Conns |-> "idle"]
    /\ len = [c \in Conns |-> 0]
    /\ priority = [c \in Conns |-> 1]
    /\ i = [c \in Conns |-> 1]
    /\ energy_add = [c \in Conns |-> <<"none">>]
    /\ perm_ids = [c \in Conns |-> <<>>]
    /\ id = [c \in Conns |-> 0]
    /\ r = [c \in Conns |-> "none"]
    /\ ret = [c \in Conns |-> "none"]
    /\ halves = [c \in Conns |-> [read |-> "unpolled", write |-> "unpolled"]]
    /\ io = [c \in Conns |-> <<>>]
    /\ inbox = [c \in Conns |-> <<>>]
    /\ issued = <<>>
    /\ lock_next = [c \in Conns |-> 0]
    /\ lock_dom = [c \in Conns |-> {}]
    /\ removes = [c \in Conns |-> 0]

\* ---- handle_connect_client --------------------------------------------
\* the handler is called with a submission of n placeholders and priority p
Connect(c, n, p) ==
    /\ pc[c] = "idle"
    /\ len' = [len EXCEPT ![c] = n]
    /\ priority' = [priority EXCEPT ![c] = p]
    /\ i' = [i EXCEPT ![c] = 1]
    /\ pc' = [pc EXCEPT ![c] = IF n = 0 THEN Then("reads") ELSE "read_source"]
    /\ UNCHANGED <<inbox, id, next_permuter_id, permuters, lock, energy_add, perm_ids, r, ret,
                   halves, io, issued, lock_next, lock_dom, removes>>

\* an early `?` return
Fail(c) ==
    /\ pc' = [pc EXCEPT ![c] = "done"]
    /\ ret' = [ret EXCEPT ![c] = "Err"]

\* line 34: read_compressed and from_utf8 both succeed
ReadSource(c) ==
    /\ pc[c] = "read_source"
    /\ io' = [io EXCEPT ![c] = Append(@, <<"read", i[c], "source">>)]
    /\ pc' = [pc EXCEPT ![c] = "read_target"]
    /\ UNCHANGED <<inbox, id, next_permuter_id, permuters, lock, len, priority, i, energy_add,
                   perm_ids, r, ret, halves, issued, lock_next, lock_dom, removes>>

\* line 34: read_compressed fails, or the block is not valid UTF-8
ReadSourceErr(c, read_ok) ==
    /\ pc[c] = "read_source"
    /\ io' = [io EXCEPT ![c] =
                 IF read_ok THEN Append(@, <<"read", i[c], "source">>) ELSE @]
    /\ Fail(c)
    /\ UNCHANGED <<inbox, id, next_permuter_id, permuters, lock, len, priority, i, energy_add,
                   perm_ids, r, halves, issued, lock_next, lock_dom, removes>>

\* mutant: the read loop ends after the first placeholder
ReadTarget_OnlyFirst(c) ==
    /\ pc[c] = "read_target"
    /\ io' = [io EXCEPT ![c] = Append(@, <<"read", i[c], "target">>)]
    /\ i' = [i EXCEPT ![c] = @ + 1]
    /\ pc' = [pc EXCEPT ![c] = Then("reads")]
    /\ UNCHANGED <<inbox, id, next_permuter_id, permuters, lock, len, priority, energy_add,
                   perm_ids, r, ret, halves, issued, lock_next, lock_dom, removes>>

\* mutant: each permuter is registered as soon as its two blocks are read
ReadTarget_Registers(c) ==
    /\ pc[c] = "read_target"
    /\ io' = [io EXCEPT ![c] = Append(@, <<"read", i[c], "target">>)]
    /\ i' = [i EXCEPT ![c] = @ + 1]
    /\ pc' = [pc EXCEPT ![c] = IF i[c] = len[c] THEN Then("reads") ELSE "read_source"]
    /\ next_permuter_id' = next_permuter_id + 1
    /\ permuters' = MapInsert(permuters, next_permuter_id, NewPermuter(c, i[c]))
    /\ issued' = Append(issued, <<next_permuter_id, c>>)
    /\ UNCHANGED <<inbox, id, lock, len, priority, energy_add,
                   perm_ids, r, ret, halves, lock_next, lock_dom, removes>>

\* line 35: read_compressed succeeds; the loop of line 33 goes round
ReadTarget(c) ==
    /\ pc[c] = "read_target"
    /\ io' = [io EXCEPT ![c] = Append(@, <<"read", i[c], "target">>)]
    /\ i' = [i EXCEPT ![c] = @ + 1]
    /\ pc' = [pc EXCEPT ![c] = IF i[c] = len[c] THEN Then("reads") ELSE "read_source"]
    /\ UNCHANGED <<inbox, id, next_permuter_id, permuters, lock, len, priority, energy_add,
                   perm_ids, r, ret, halves, issued, lock_next, lock_dom, removes>>

\* line 35: read_compressed fails
ReadTargetErr(c) ==
    /\ pc[c] = "read_target"
    /\ Fail(c)
    /\ UNCHANGED <<inbox, id, next_permuter_id, permuters, lock, len, priority, i, energy_add,
                   perm_ids, r, halves, io, issued, lock_next, lock_dom, removes>>

\* line 37: the acknowledgment is written
WriteJson(c) ==
    /\ pc[c] = "write_json"
    /\ io' = [io EXCEPT ![c] = Append(@, <<"ack">>)]
    /\ pc' = [pc EXCEPT ![c] = Then("write_json")]
    /\ UNCHANGED <<inbox, id, next_permuter_id, permuters, lock, len, priority, i, energy_add,
                   perm_ids, r, ret, halves, issued, lock_next, lock_dom, removes>>

\* line 37: write_json fails
WriteJsonErr(c) ==
    /\ pc[c] = "write_json"
    /\ Fail(c)
    /\ UNCHANGED <<inbox, id, next_permuter_id, permuters, lock, len, priority, i, energy_add,
                   perm_ids, r, halves, io, issued, lock_next, lock_dom, removes>>

\* the handler's future is dropped while suspended on channel I/O
Drop(c) ==
    /\ pc[c] \in {"read_source", "read_target", "write_json"}
    /\ pc' = [pc EXCEPT ![c] = "done"]
    /\ ret' = [ret EXCEPT ![c] = "Dropped"]
    /\ UNCHANGED <<inbox, id, next_permuter_id, permuters, lock, len, priority, i, energy_add,
                   perm_ids, r, halves, io, issued, lock_next, lock_dom, removes>>

\* mutant: the insert block runs without waiting for the mutex
LockInsert_NoMutex(c) ==
    /\ pc[c] = "lock_insert"
    /\ lock' = c
    /\ energy_add' = [energy_add EXCEPT ![c] = F64Div(len[c], priority[c])]
    /\ perm_ids' = [perm_ids EXCEPT ![c] = <<>>]
    /\ i' = [i EXCEPT ![c] = 1]
    /\ lock_next' = [lock_next EXCEPT ![c] = next_permuter_id]
    /\ lock_dom' = [lock_dom EXCEPT ![c] = DOMAIN permuters]
    /\ pc' = [pc EXCEPT ![c] = "next_id"]
    /\ UNCHANGED <<inbox, id, next_permuter_id, permuters, len, priority, r, ret, halves, io,
                   issued, removes>>

\* lines 40-44: energy_add, perm_ids, state.m.lock()
LockInsert(c) ==
    /\ pc[c] = "lock_insert"
    /\ lock = NoOne
    /\ lock' = c
    /\ energy_add' = [energy_add EXCEPT ![c] = F64Div(len[c], priority[c])]
    /\ perm_ids' = [perm_ids EXCEPT ![c] = <<>>]
    /\ i' = [i EXCEPT ![c] = 1]
    /\ lock_next' = [lock_next EXCEPT ![c] = next_permuter_id]
    /\ lock_dom' = [lock_dom EXCEPT ![c] = DOMAIN permuters]
    /\ pc' = [pc EXCEPT ![c] = "next_id"]
    /\ UNCHANGED <<inbox, id, next_permuter_id, permuters, len, priority, r, ret, halves, io,
                   issued, removes>>

\* lines 45-46: the loop has another permuter; id = m.next_permuter_id
NextId(c) ==
    /\ pc[c] = "next_id"
    /\ i[c] <= len[c]
    /\ id' = [id EXCEPT ![c] = next_permuter_id]
    /\ pc' = [pc EXCEPT ![c] = "insert"]
    /\ UNCHANGED <<inbox, next_permuter_id, permuters, lock, len, priority, i, energy_add,
                   perm_ids, r, ret, halves, io, issued, lock_next, lock_dom, removes>>

\* mutant: the counter is not advanced
Insert_NoIncrement(c) ==
    /\ pc[c] = "insert"
    /\ next_permuter_id' = next_permuter_id
    /\ perm_ids' = [perm_ids EXCEPT ![c] = Append(@, id[c])]
    /\ permuters' = MapInsert(permuters, id[c], NewPermuter(c, i[c]))
    /\ issued' = Append(issued, <<id[c], c>>)
    /\ i' = [i EXCEPT ![c] = @ + 1]
    /\ pc' = [pc EXCEPT ![c] = "next_id"]
    /\ UNCHANGED <<inbox, id, lock, len, priority, energy_add, r, ret, halves, io,
                   lock_next, lock_dom, removes>>

\* lines 47-60: the counter advances, the id is kept, the Permuter inserted
Insert(c) ==
    /\ pc[c] = "insert"
    /\ next_permuter_id' = next_permuter_id + 1
    /\ perm_ids' = [perm_ids EXCEPT ![c] = Append(@, id[c])]
    /\ permuters' = MapInsert(permuters, id[c], NewPermuter(c, i[c]))
    /\ issued' = Append(issued, <<id[c], c>>)
    /\ i' = [i EXCEPT ![c] = @ + 1]
    /\ pc' = [pc EXCEPT ![c] = "next_id"]
    /\ UNCHANGED <<inbox, id, lock, len, priority, energy_add, r, ret, halves, io,
                   lock_next, lock_dom, removes>>

\* mutant: the guard is dropped inside the loop, after the first insert
UnlockInsert_Early(c) ==
    /\ pc[c] = "next_id"
    /\ i[c] > 1 \/ len[c] = 0
    /\ lock' = NoOne
    /\ pc' = [pc EXCEPT ![c] = Then("insert")]
    /\ UNCHANGED <<inbox, id, next_permuter_id, permuters, len, priority, i, energy_add,
                   perm_ids, r, ret, halves, io, issued, lock_next, lock_dom, removes>>

\* mutant: no inner block - the guard lives on after the loop
UnlockInsert_KeepsLock(c) ==
    /\ pc[c] = "next_id"
    /\ i[c] > len[c]
    /\ lock' = lock
    /\ pc' = [pc EXCEPT ![c] = Then("insert")]
    /\ UNCHANGED <<inbox, id, next_permuter_id, permuters, len, priority, i, energy_add,
                   perm_ids, r, ret, halves, io, issued, lock_next, lock_dom, removes>>

\* line 61: the guard goes out of scope
UnlockInsert(c) ==
    /\ pc[c] = "next_id"
    /\ i[c] > len[c]
    /\ lock' = NoOne
    /\ pc' = [pc EXCEPT ![c] = Then("insert")]
    /\ UNCHANGED <<inbox, id, next_permuter_id, permuters, len, priority, i, energy_add,
                   perm_ids, r, ret, halves, io, issued, lock_next, lock_dom, removes>>

\* the messages of the read direction: a result submission or a task update,
\* with a payload, for the first id of the connection's batch or for the id
\* that follows the batch (another connection's, or not issued yet)
Messages(c) ==
    [kind : {"result", "update"}, id : {lock_next[c], lock_next[c] + len[c]},
     data : {<<c, 0>>}]

\* the client, acknowledged, streams message m; it waits in the channel for
\* the read-half (what was sent before client_read is polled is all that
\* client_read could find there)
ClientSend(c, m) ==
    /\ pc[c] = "client_read"
    /\ Len(inbox[c]) < MaxInbox
    /\ inbox' = [inbox EXCEPT ![c] = Append(@, m)]
    /\ UNCHANGED <<next_permuter_id, permuters, lock, pc, len, priority, i, energy_add,
                   perm_ids, id, r, ret, halves, io, issued, lock_next, lock_dom,
                   removes>>

\* lines 63-64: try_join! polls client_read; an Err ends the join at once
TryJoinRead(c) ==
    /\ pc[c] = "client_read"
    /\ halves' = [halves EXCEPT ![c].read = client_read]
    /\ IF client_read = "Err"
       THEN /\ r' = [r EXCEPT ![c] = "Err"]
            /\ pc' = [pc EXCEPT ![c] = Then("try_join")]
       ELSE /\ r' = r
            /\ pc' = [pc EXCEPT ![c] = "client_write"]
    /\ UNCHANGED <<inbox, id, next_permuter_id, permuters, lock, len, priority, i, energy_add,
                   perm_ids, ret, io, issued, lock_next, lock_dom, removes>>

\* lines 65-66: try_join! polls client_write and yields r
TryJoinWrite(c) ==
    /\ pc[c] = "client_write"
    /\ halves' = [halves EXCEPT ![c].write = client_write]
    /\ r' = [r EXCEPT ![c] = client_write]
    /\ pc' = [pc EXCEPT ![c] = Then("try_join")]
    /\ UNCHANGED <<inbox, id, next_permuter_id, permuters, lock, len, priority, i, energy_add,
                   perm_ids, ret, io, issued, lock_next, lock_dom, removes>>

\* line 69: state.m.lock()
LockRemove(c) ==
    /\ pc[c] = "lock_remove"
    /\ lock = NoOne
    /\ lock' = c
    /\ i' = [i EXCEPT ![c] = 1]
    /\ pc' = [pc EXCEPT ![c] = "remove"]
    /\ UNCHANGED <<inbox, id, next_permuter_id, permuters, len, priority, energy_add, perm_ids,
                   r, ret, halves, io, issued, lock_next, lock_dom, removes>>

\* mutant: the entry is removed by the loop's position, not by the stored id
Remove_ByIndex(c) ==
    /\ pc[c] = "remove"
    /\ i[c] <= Len(perm_ids[c])
    /\ permuters' = MapRemove(permuters, i[c] - 1)
    /\ i' = [i EXCEPT ![c] = @ + 1]
    /\ UNCHANGED <<inbox, id, next_permuter_id, lock, pc, len, priority, energy_add, perm_ids,
                   r, ret, halves, io, issued, lock_next, lock_dom, removes>>

\* lines 70-72: one round of the remove loop
Remove(c) ==
    /\ pc[c] = "remove"
    /\ i[c] <= Len(perm_ids[c])
    /\ permuters' = MapRemove(permuters, perm_ids[c][i[c]])
    /\ i' = [i EXCEPT ![c] = @ + 1]
    /\ UNCHANGED <<inbox, id, next_permuter_id, lock, pc, len, priority, energy_add, perm_ids,
                   r, ret, halves, io, issued, lock_next, lock_dom, removes>>

\* mutant: the remove loop stops one id short
UnlockRemove_Early(c) ==
    /\ pc[c] = "remove"
    /\ i[c] >= Len(perm_ids[c])
    /\ lock' = NoOne
    /\ removes' = [removes EXCEPT ![c] = @ + 1]
    /\ pc' = [pc EXCEPT ![c] = Then("remove")]
    /\ UNCHANGED <<inbox, id, next_permuter_id, permuters, len, priority, i, energy_add,
                   perm_ids, r, ret, halves, io, issued, lock_next, lock_dom>>

\* line 73: the guard goes out of scope
UnlockRemove(c) ==
    /\ pc[c] = "remove"
    /\ i[c] > Len(perm_ids[c])
    /\ lock' = NoOne
    /\ removes' = [removes EXCEPT ![c] = @ + 1]
    /\ pc' = [pc EXCEPT ![c] = Then("remove")]
    /\ UNCHANGED <<inbox, id, next_permuter_id, permuters, len, priority, i, energy_add,
                   perm_ids, r, ret, halves, io, issued, lock_next, lock_dom>>

\* lines 74-76: r?; Ok(()); the ports are dropped with what was not read
Return(c) ==
    /\ pc[c] = "return"
    /\ ret' = [ret EXCEPT ![c] = r[c]]
    /\ pc' = [pc EXCEPT ![c] = "done"]
    /\ inbox' = [inbox EXCEPT ![c] = <<>>]
    /\ UNCHANGED <<id, next_permuter_id, permuters, lock, len, priority, i, energy_add,
                   perm_ids, r, halves, io, issued, lock_next, lock_dom, removes>>

handle_connect_client(c) ==
    \/ \E n \in 0..MaxPermuters, p \in Priorities : Connect(c, n, p)
    \/ ReadSource(c)
    \/ \E read_ok \in BOOLEAN : ReadSourceErr(c, read_ok)
    \/ ReadTarget(c)
    \/ ReadTargetErr(c)
    \/ WriteJson(c)
    \/ WriteJsonErr(c)
    \/ Drop(c)
    \/ LockInsert(c)
    \/ NextId(c)
    \/ Insert(c)
    \/ UnlockInsert(c)
    \/ \E m \in Messages(c) : ClientSend(c, m)
    \/ TryJoinRead(c)
    \/ TryJoinWrite(c)
    \/ LockRemove(c)
    \/ Remove(c)
    \/ UnlockRemove(c)
    \/ Return(c)

Next == \E c \in Conns : handle_connect_client(c)

Spec == Init /\ [][Next]_vars

\* ---- properties --------------------------------------------------------
\* the entries of the registry that connection c inserted
Owned(c) == {pid \in DOMAIN permuters : permuters[pid].data[1] = c}

\* the ids connection c took from next_permuter_id
IssuedTo(c) == {issued[k][1] : k \in {j \in 1..Len(issued) : issued[j][2] = c}}

AckSent(c) == \E k \in 1..Len(io[c]) : io[c][k] = <<"ack">>

C2_IdsUnique ==
    /\ \A a, b \in 1..Len(issued) : a # b => issued[a][1] # issued[b][1]
    /\ \A k \in 1..Len(issued) : issued[k][1] < next_permuter_id
    /\ \A c \in Conns : Range(perm_ids[c]) = IssuedTo(c)
    /\ \A c, d \in Conns : c # d => IssuedTo(c) \cap IssuedTo(d) = {}

\* a connection registered into a registry emptied by an earlier bulk remove
C2_Witness ==
    \E c, d \in Conns :
        /\ c # d
        /\ removes[c] = 1 /\ Len(perm_ids[c]) >= 1
        /\ lock_next[d] >= 1 /\ lock_dom[d] = {}
        /\ Len(perm_ids[d]) >= 1 /\ Range(perm_ids[d]) \subseteq DOMAIN permuters

C4_NonPositivePriorityRejected ==
    \A c \in Conns :
        (pc[c] # "idle" /\ priority[c] <= 0) =>
            /\ Owned(c) = {}
            /\ IssuedTo(c) = {}
            /\ ret[c] # "Ok"

\* C5: at the end of the insert loop of a submission of N permuters with
\* priority p > 0 the registry holds exactly N entries that were not there
\* when the lock was taken, each with energy_add = N/p, and next_permuter_id
\* is N more than it was when the lock was taken; the entries stay as they are
\* until the connection's remove block.
C5_RegistrationPostcondition ==
    \A c \in Conns :
        /\ (priority[c] > 0 /\ pc[c] = "next_id" /\ i[c] > len[c]) =>
              /\ Len(perm_ids[c]) = len[c]
              /\ Cardinality(Range(perm_ids[c])) = len[c]
              /\ Range(perm_ids[c]) \cap lock_dom[c] = {}
              /\ DOMAIN permuters = lock_dom[c] \cup Range(perm_ids[c])
              /\ Owned(c) = Range(perm_ids[c])
              /\ Cardinality(DOMAIN permuters \ lock_dom[c]) = len[c]
              /\ next_permuter_id = lock_next[c] + len[c]
        /\ (priority[c] > 0 /\ pc[c] \in {"next_id", "insert", "client_read",
                                          "client_write", "lock_remove"}) =>
              \A pid \in Owned(c) :
                  LET e == permuters[pid].energy_add
                  IN  /\ e[1] = "fin"
                      /\ e[3] > 0
                      /\ e[2] * priority[c] = e[3] * len[c]

\* one permuter with priority 2 was registered beside another connection's entries
C5_Witness ==
    \E c \in Conns :
        /\ pc[c] = "next_id" /\ i[c] > len[c]
        /\ len[c] = 1 /\ priority[c] = 2
        /\ lock_dom[c] # {}
        /\ \A pid \in Owned(c) : permuters[pid].energy_add = <<"fin", 1, 2>>

\* C6: a handler whose initial reads failed returned an error, inserted
\* nothing and took no id; and whenever a connection does not hold the lock
\* the registry holds none or all N of its permuters.
C6_NoPartialRegistration ==
    /\ next_permuter_id = Len(issued)
    /\ \A c \in Conns :
        /\ (pc[c] = "done" /\ ~AckSent(c) /\ ret[c] # "Dropped") =>
              /\ ret[c] = "Err"
              /\ Owned(c) = {}
              /\ IssuedTo(c) = {}
        /\ (pc[c] \in {"read_source", "read_target", "write_json"}) =>
              Owned(c) = {} /\ IssuedTo(c) = {}
        /\ lock # c => Cardinality(Owned(c)) \in {0, len[c]}

\* a read of the second placeholder failed while the other connection's
\* batch of two is registered
C6_Witness ==
    \E c, d \in Conns :
        /\ pc[c] = "done" /\ ret[c] = "Err" /\ len[c] = 2 /\ i[c] = 2
        /\ pc[d] = "client_read" /\ Cardinality(Owned(d)) = 2

Live(c) == pc[c] \in {"client_read", "client_write", "lock_remove", "remove", "return"}

\* C8 (as claimed), read at the states where the mutex is free: an entry with
\* identifier i is in the registry if and only if the connection that
\* registered id is live.
C8_EntryIffLive ==
    lock = NoOne =>
        \A c \in Conns : \A pid \in IssuedTo(c) : pid \in DOMAIN permuters <=> Live(c)

\* C8 (amended): whenever the registering connection does not hold the lock,
\* the entry is in the registry if and only if that connection has completed
\* its registration and has not yet run its remove block; every entry belongs
\* to a handler that has not ended.
C8_EntryIffRegisteredNotRemoved ==
    /\ \A c \in Conns :
          lock # c =>
              \A pid \in IssuedTo(c) :
                  pid \in DOMAIN permuters <=>
                      pc[c] \in {"client_read", "client_write", "lock_remove"}
    /\ \A pid \in DOMAIN permuters :
          \E c \in Conns : pid \in IssuedTo(c) /\ pc[c] # "done"

\* a handler that removed its entries has not returned yet
C8_Witness ==
    \E c \in Conns :
        /\ pc[c] = "return" /\ lock = NoOne
        /\ IssuedTo(c) # {} /\ IssuedTo(c) \cap DOMAIN permuters = {}

\* C9: a handler holds the lock only inside the insert loop and the remove
\* loop; suspended on read_compressed, on write_json or in the halves it does not.
C9_LockOnlyInCriticalSections ==
    \A c \in Conns :
        /\ lock = c => pc[c] \in {"next_id", "insert", "remove"}
        /\ pc[c] \in {"read_source", "read_target", "write_json",
                      "client_read", "client_write"} => lock # c

\* one connection is in its halves, after its insert block, while another holds the lock
C9_Witness ==
    \E c, d \in Conns :
        /\ pc[c] \in {"client_read", "client_write"} /\ Owned(c) # {}
        /\ lock = d /\ d # c

\* what try_join! yields for the results of the two halves
TryJoinResult(h) == IF h.read = "Err" \/ h.write = "Err" THEN "Err" ELSE "Ok"

\* C10: a handler that ran the protocol phase returns what try_join! yielded -
\* Ok when both halves ended without error - and by then its remove block has
\* run and none of its entries is left.
C10_ReturnsJoinResultAfterCleanup ==
    \A c \in Conns :
        (pc[c] = "done" /\ AckSent(c) /\ ret[c] # "Dropped") =>
            /\ r[c] = TryJoinResult(halves[c])
            /\ ret[c] = r[c]
            /\ halves[c] = [read |-> "Ok", write |-> "Ok"] => ret[c] = "Ok"
            /\ removes[c] = 1
            /\ Owned(c) = {}

\* a handler that registered two entries returned Ok
C10_Witness ==
    \E c \in Conns :
        /\ pc[c] = "done" /\ ret[c] = "Ok" /\ Cardinality(IssuedTo(c)) = 2
        /\ halves[c] = [read |-> "Ok", write |-> "Ok"]

\* the handler has passed the registration block
Registered(c) ==
    pc[c] \in {"client_read", "client_write", "lock_remove", "remove", "return"}
        \/ (pc[c] = "done" /\ energy_add[c] # <<"none">>)

\* C11: the remove block runs exactly once on every path that passed the
\* registration block - never twice, and once by the time the handler ends -
\* and inside it each id of perm_ids is removed once, in order.
C11_RemoveExactlyOnce ==
    \A c \in Conns :
        /\ removes[c] <= 1
        /\ removes[c] = 1 <=> (Registered(c) /\ pc[c] \in {"return", "done"})
        /\ pc[c] = "remove" =>
              \A k \in 1..Len(perm_ids[c]) :
                  perm_ids[c][k] \in DOMAIN permuters <=> k >= i[c]

\* a handler that registered two entries has ended, its remove block ran once
C11_Witness ==
    \E c \in Conns :
        pc[c] = "done" /\ Len(perm_ids[c]) = 2 /\ removes[c] = 1

\* C12: a step changes permuters or next_permuter_id only if it is a round of
\* some connection's insert loop or of its remove loop, taken while that
\* connection holds the lock; reads, acknowledgment, halves, lock and
\* unlock steps, returns and drops leave both unchanged.
C12_OnlyInsertAndRemoveMutate ==
    [][ (permuters' # permuters \/ next_permuter_id' # next_permuter_id) =>
          \E c \in Conns :
              /\ lock = c /\ lock' = c
              /\ \/ pc[c] = "insert" /\ pc'[c] = "next_id"
                 \/ pc[c] = "remove" /\ pc'[c] = "remove" /\ i'[c] = i[c] + 1
                                     /\ next_permuter_id' = next_permuter_id
              /\ \A d \in Conns \ {c} : pc'[d] = pc[d] ]_vars

\* one handler has inserted and removed two entries while another is reading
C12_Witness ==
    \E c, d \in Conns :
        /\ pc[c] = "return" /\ Len(perm_ids[c]) = 2
        /\ pc[d] = "read_target" /\ i[d] = 2

\* the steps a lock holder takes inside its critical section
InsideLock(d) ==
    NextId(d) \/ Insert(d) \/ UnlockInsert(d) \/ Remove(d) \/ UnlockRemove(d)

\* C13: a handler waiting for the lock never waits for itself, and either
\* the lock is free (it can take it) or its holder is inside the insert or
\* remove loop and can take its next step, which needs nothing but the lock
\* it holds; as long as some handler has not ended, some step is possible.
C13_NoDeadlock ==
    /\ \A c \in Conns :
          pc[c] \in {"lock_insert", "lock_remove"} =>
              /\ lock # c
              /\ \/ lock = NoOne /\ ENABLED (LockInsert(c) \/ LockRemove(c))
                 \/ lock # NoOne /\ pc[lock] \in {"next_id", "insert", "remove"}
                                 /\ ENABLED InsideLock(lock)
    /\ (\A c \in Conns : pc[c] = "done") \/ ENABLED Next

\* one handler waits for the lock to remove while the other holds it to insert
C13_Witness ==
    \E c, d \in Conns :
        pc[c] = "lock_remove" /\ lock = d /\ pc[d] = "insert"

\* the channel operations of the initial phase for n placeholders, in order
ExpectedReads(n) ==
    [k \in 1..(2 * n) |->
        <<"read", (k + 1) \div 2, IF k % 2 = 1 THEN "source" ELSE "target">>]

IsRead(op) == op[1] = "read"

Reads(c) == SelectSeq(io[c], IsRead)

AckCount(c) == Cardinality({k \in 1..Len(io[c]) : io[c][k] = <<"ack">>})

\* what holds of the initial phase on every path: the blocks are read in
\* placeholder order, source then target; the acknowledgment is written at
\* most once, after exactly 2N reads and before either half starts, and
\* never when a read failed
InitialPhase(c) ==
    /\ AckCount(c) <= 1
    /\ Len(Reads(c)) <= 2 * len[c]
    /\ Reads(c) = SubSeq(ExpectedReads(len[c]), 1, Len(Reads(c)))
    /\ AckCount(c) = 1 => io[c] = Append(ExpectedReads(len[c]), <<"ack">>)
    /\ (pc[c] \in {"client_read", "client_write"} \/ halves[c].read # "unpolled")
          => AckCount(c) = 1
    /\ (pc[c] = "done" /\ Len(Reads(c)) < 2 * len[c]) => AckCount(c) = 0

\* C16 (as claimed): the initial read protocol, with the acknowledgment
\* written exactly once whenever all 2N reads succeeded (handlers that ran
\* to their return).
C16_AckExactlyOnceWhenReadsSucceed ==
    \A c \in Conns :
        /\ InitialPhase(c)
        /\ (pc[c] = "done" /\ ret[c] # "Dropped" /\ Len(Reads(c)) = 2 * len[c])
              => AckCount(c) = 1

\* C16 (amended): the initial read protocol, with the acknowledgment written
\* exactly once when all 2N reads succeed and write_json succeeds: a handler
\* that is past line 37 has written it once, and a handler whose reads all
\* succeeded and that ended without it ended with an error or was dropped,
\* having registered nothing.
C16_AckExactlyOnceWhenWriteSucceeds ==
    \A c \in Conns :
        /\ InitialPhase(c)
        /\ (pc[c] \in {"lock_insert", "next_id", "insert"} \/ Registered(c))
              => AckCount(c) = 1
        /\ (pc[c] = "done" /\ Len(Reads(c)) = 2 * len[c] /\ AckCount(c) = 0)
              => ret[c] \in {"Err", "Dropped"} /\ IssuedTo(c) = {}

\* four blocks were read in order and acknowledged, the halves are about to start
C16_Witness ==
    \E c \in Conns :
        /\ pc[c] = "client_read" /\ len[c] = 2
        /\ io[c] = <<<<"read", 1, "source">>, <<"read", 1, "target">>,
                     <<"read", 2, "source">>, <<"read", 2, "target">>, <<"ack">>>>

\* C17: the ids of a batch are consecutive integers, from the value of
\* next_permuter_id when the lock was taken, in submission order, and no id
\* of another connection lies between them.
C17_BatchIdsConsecutive ==
    \A c \in Conns :
        /\ \A k \in 1..Len(perm_ids[c]) :
              /\ perm_ids[c][k] = lock_next[c] + k - 1
              /\ perm_ids[c][k] \in DOMAIN permuters
                    => permuters[perm_ids[c][k]].data = <<c, k>>
        /\ pc[c] = "insert" => id[c] = lock_next[c] + i[c] - 1
        /\ \A d \in Conns \ {c} : \A x \in IssuedTo(d) : \A a, b \in IssuedTo(c) :
              ~(a < x /\ x < b)

\* two batches of two are registered one after the other
C17_Witness ==
    \E c, d \in Conns :
        /\ c # d
        /\ Len(perm_ids[c]) = 2 /\ Len(perm_ids[d]) = 2
        /\ lock_next[d] = lock_next[c] + 2
        /\ Cardinality(DOMAIN permuters) = 4

\* C18: an entry leaves the registry or changes only in a round of its own
\* connection's remove loop, which removes that one id and nothing else; the
\* remove block ends with none of the connection's entries left and leaves
\* next_permuter_id as it was.
C18_RemoveOnlyOwnEntries ==
    [][ \A c \in Conns :
          /\ \A pid \in Owned(c) :
                (pid \notin DOMAIN permuters' \/ permuters'[pid] # permuters[pid]) =>
                    /\ lock = c /\ pc[c] = "remove"
                    /\ pid = perm_ids[c][i[c]]
                    /\ DOMAIN permuters' = DOMAIN permuters \ {pid}
          /\ (pc[c] \in {"lock_remove", "remove"} /\ <<pc[c], i[c]>>' # <<pc[c], i[c]>>) =>
                next_permuter_id' = next_permuter_id
          /\ (pc[c] = "remove" /\ pc'[c] # "remove") =>
                IssuedTo(c) \cap DOMAIN permuters' = {} ]_vars

\* one connection has removed its entries, the other's two are in the registry
C18_Witness ==
    \E c, d \in Conns :
        /\ c # d
        /\ pc[c] = "return" /\ Len(perm_ids[c]) >= 1
        /\ Cardinality(Owned(d)) = 2 /\ lock_next[d] < lock_next[c]

\* C19: an entry enters the registry in a round of an insert loop, with empty
\* queues, stale = FALSE and the priority of its batch; while it stays, its
\* energy_add and priority do not change.
C19_InsertedFieldsAndConstancy ==
    [][ \A pid \in DOMAIN permuters' :
          IF pid \in DOMAIN permuters
          THEN /\ permuters'[pid].energy_add = permuters[pid].energy_add
               /\ permuters'[pid].priority = permuters[pid].priority
          ELSE \E c \in Conns :
                  /\ pc[c] = "insert" /\ pid = id[c]
                  /\ permuters'[pid].work_queue = <<>>
                  /\ permuters'[pid].result_queue = <<>>
                  /\ permuters'[pid].stale = FALSE
                  /\ permuters'[pid].priority = priority[c]
                  /\ permuters'[pid].energy_add = energy_add[c]
                  /\ permuters'[pid].data = <<c, i[c]>> ]_vars

\* entries of two batches with different priorities are in the registry
C19_Witness ==
    \E c, d \in Conns :
        /\ priority[c] = 2 /\ priority[d] = 1 /\ len[c] = 1 /\ len[d] = 2
        /\ Owned(c) # {} /\ Cardinality(Owned(d)) = 2
        /\ \A pid \in Owned(c) : permuters[pid].priority = 2

\* C14 (as claimed): when the read-half has run, a result submission waiting
\* in the channel that names an id the connection does not own has made the
\* read-half end with an error.
C14_UnownedResultRejected ==
    \A c \in Conns :
        (priority[c] > 0 /\ halves[c].read # "unpolled" /\
            \E k \in 1..Len(inbox[c]) :
                inbox[c][k].kind = "result" /\ inbox[c][k].id \notin Range(perm_ids[c]))
        => halves[c].read = "Err"

\* C15 (as claimed): when the read-half has run, a task update waiting in the
\* channel for an owned id has set that Permuter's stale flag and replaced its
\* data, its work_queue being as before.
C15_UpdateMarksStale ==
    \A c \in Conns :
        (priority[c] > 0 /\ halves[c].read # "unpolled"
                         /\ pc[c] \in {"client_write", "lock_remove"}) =>
            \A k \in 1..Len(inbox[c]) :
                (inbox[c][k].kind = "update" /\ inbox[c][k].id \in Owned(c)) =>
                    /\ permuters[inbox[c][k].id].stale = TRUE
                    /\ permuters[inbox[c][k].id].data = inbox[c][k].data
                    /\ permuters[inbox[c][k].id].work_queue = <<>>

\* the steps of a handler that need no input from the client and no lock grant
Runs(c) ==
    \/ NextId(c) \/ Insert(c) \/ UnlockInsert(c)
    \/ TryJoinRead(c) \/ TryJoinWrite(c)
    \/ Remove(c) \/ UnlockRemove(c)
    \/ Return(c)

\* fair scheduling of the handlers, fair granting of the mutex
FairSpec ==
    /\ Spec
    /\ \A c \in Conns :
          /\ WF_vars(Runs(c))
          /\ SF_vars(LockInsert(c) \/ LockRemove(c))

\* C20: under fair scheduling and fair granting of the lock, a handler whose
\* initial reads and acknowledgment completed eventually ends, and the
\* entries it put in the registry are eventually removed.
C20_EventuallyEndsAndRemoves ==
    \A c \in Conns :
        /\ (pc[c] = "lock_insert") ~> (pc[c] = "done")
        /\ (Owned(c) # {}) ~> (Owned(c) = {})

\* both handlers ended Ok after registering two entries each, one while the
\* other's entries were in the registry
C20_Witness ==
    \E c, d \in Conns :
        /\ c # d
        /\ pc[c] = "done" /\ ret[c] = "Ok" /\ Len(perm_ids[c]) = 2
        /\ pc[d] = "done" /\ ret[d] = "Ok" /\ Len(perm_ids[d]) = 2
        /\ lock_dom[d] # {} /\ permuters = <<>>

====
